---- MODULE Spec2Model ----
(***************************************************************************)
(* Model of skeliton.py: the Excel -> JSON converter built from four       *)
(* nodes (InputNode, RuleForWriterNode, JsonWriterNode, OutputNode) and    *)
(* the ExcelToJsonConverter that wires them.                               *)
(*                                                                         *)
(* Python values are tagged records: [t |-> "None"], [t |-> "str", s],     *)
(* [t |-> "int", n], [t |-> "float", ip, fp], [t |-> "bool", b],           *)
(* [t |-> "datetime", d], [t |-> "list", l], [t |-> "dict", d],            *)
(* [t |-> "df", columns, rows].  A Python str is a sequence of one-        *)
(* character strings, so that lower(), upper(), replace(), join and the    *)
(* substring test `in` are computed character by character.                *)
(***************************************************************************)
EXTENDS Integers, Sequences, FiniteSets, TLC

\* ------------------------------------------------------------------ bounds
MaxRows == 2
MaxCalls == 3

\* ------------------------------------------------------- Python str values
UpperAlphabet ==
  <<"A","B","C","D","E","F","G","H","I","J","K","L","M",
    "N","O","P","Q","R","S","T","U","V","W","X","Y","Z">>

LowerAlphabet ==
  <<"a","b","c","d","e","f","g","h","i","j","k","l","m",
    "n","o","p","q","r","s","t","u","v","w","x","y","z">>

LowerChar(c) ==
  IF \E i \in 1..26 : UpperAlphabet[i] = c
  THEN LowerAlphabet[CHOOSE i \in 1..26 : UpperAlphabet[i] = c]
  ELSE c

UpperChar(c) ==
  IF \E i \in 1..26 : LowerAlphabet[i] = c
  THEN UpperAlphabet[CHOOSE i \in 1..26 : LowerAlphabet[i] = c]
  ELSE c

\* str.lower()
lower(s) == [i \in 1..Len(s) |-> LowerChar(s[i])]

\* str.upper()
upper(s) == [i \in 1..Len(s) |-> UpperChar(s[i])]

\* str.replace(' ', '_')
replace_space(s) == [i \in 1..Len(s) |-> IF s[i] = " " THEN "_" ELSE s[i]]

\* `sub in s` for two str values
Contains(s, sub) ==
  \E i \in 0..(Len(s) - Len(sub)) :
    \A j \in 1..Len(sub) : s[i + j] = sub[j]

\* ' '.join(parts)
RECURSIVE join_space(_)
join_space(parts) ==
  IF Len(parts) = 0 THEN <<>>
  ELSE IF Len(parts) = 1 THEN parts[1]
  ELSE parts[1] \o <<" ">> \o join_space(Tail(parts))

Digits == <<"0","1","2","3","4","5","6","7","8","9">>

\* str(n) for a non-negative int
RECURSIVE IntToStr(_)
IntToStr(n) ==
  IF n < 10 THEN <<Digits[n + 1]>>
  ELSE IntToStr(n \div 10) \o <<Digits[(n % 10) + 1]>>

\* ------------------------------------------------------ Python value tags
None == [t |-> "None"]
PyStr(s) == [t |-> "str", s |-> s]
PyInt(n) == [t |-> "int", n |-> n]
PyFloat(ip, fp) == [t |-> "float", ip |-> ip, fp |-> fp]
PyBool(b) == [t |-> "bool", b |-> b]
PyDatetime(d) == [t |-> "datetime", d |-> d]
PyList(l) == [t |-> "list", l |-> l]
PyDict(d) == [t |-> "dict", d |-> d]
NaN == [t |-> "nan"]
EmptyDict == PyDict(<<>>)

\* str(value), as the f-strings and str() calls format a value
str(v) ==
  CASE v.t = "str" -> v.s
    [] v.t = "int" -> IntToStr(v.n)
    [] v.t = "float" -> IntToStr(v.ip) \o <<".">> \o IntToStr(v.fp)
    [] v.t = "bool" -> IF v.b THEN <<"T","r","u","e">> ELSE <<"F","a","l","s","e">>
    [] v.t = "nan" -> <<"n","a","n">>
    [] v.t = "None" -> <<"N","o","n","e">>
    [] OTHER -> <<"2","0","2","4","-","0","1","-","0","1",
                  " ","0","0",":","0","0",":","0","0">>

\* pd.isna / pd.notna on a scalar
isna(v) == v.t \in {"nan", "None"}
notna(v) == ~isna(v)

\* isinstance(value, (int, float)): bool is a subclass of int, NaN is a float
isinstance_int_float(v) == v.t \in {"int", "float", "bool", "nan"}

\* dict.get(key, default) on a dict value
dict_get(dv, key, default) ==
  IF key \in DOMAIN dv.d THEN dv.d[key] ELSE default


\* ------------------------------------------------------- program constants
S_patterns == <<"p","a","t","t","e","r","n","s">>
S_text == <<"t","e","x","t">>
S_name == <<"n","a","m","e">>
S_section == <<"s","e","c","t","i","o","n">>
S_SECTION == <<"S","E","C","T","I","O","N">>
S_LABEL_ == <<"L","A","B","E","L","_">>
S__Code == <<"_","C","o","d","e">>
S__TextPara == <<"_","T","e","x","t","P","a","r","a">>
S_DEFAULT_CODE == <<"D","E","F","A","U","L","T","_","C","O","D","E">>
S_MES_REVENGG_TESTRUN ==
  <<"M","E","S","_","R","E","V","E","N","G","G","_","T","E","S","T","R","U","N">>
S_GENAI_REVENGG_ == <<"[","G","E","N","A","I","_","R","E","V","E","N","G","G","_">>
S_TEXT == <<"T","E","X","T">>
S_NUMBER == <<"N","U","M","B","E","R">>
S_BOOLEAN == <<"B","O","O","L","E","A","N">>

\* results of a call: a returned value, or an exception raised to the caller
Return(h, v) == [h |-> h, ret |-> v, exc |-> FALSE]
Raise(h) == [h |-> h, ret |-> None, exc |-> TRUE]

\* ---------------------------------------------------------------- InputNode
\* InputNode.process: pd.read_excel either yields a DataFrame or raises
InputNode_process(h, file) ==
  IF file.t = "df"
  THEN Return([h EXCEPT !.data = file, !.columns = file.columns,
                        !.rows = file.rows, !.excelReads = @ + 1], file)
  ELSE Return([h EXCEPT !.excelReads = @ + 1], None)

\* InputNode.get_data
InputNode_get_data(h, file) ==
  IF h.data # None THEN Return(h, h.data) ELSE InputNode_process(h, file)

\* -------------------------------------------------------- RuleForWriterNode
\* RuleForWriterNode._get_default_rules
get_default_rules ==
  PyDict([patterns |-> PyDict([text_pattern |-> PyDict(
    [pi_code |-> PyStr(S_MES_REVENGG_TESTRUN),
     section_prefix |-> PyStr(S_SECTION),
     label_prefix |-> PyStr(S_LABEL_),
     code_suffix |-> PyStr(S__TextPara),
     kind_mapping |-> PyDict([text |-> PyStr(S_TEXT),
                              number |-> PyStr(S_NUMBER),
                              boolean |-> PyStr(S_BOOLEAN)])])])])

\* faulty variant of RuleForWriterNode.process: every failure to load, not
\* only a missing file, substitutes the default rules
RuleForWriterNode_process_default_on_error(h, file) ==
  CASE file.t = "json" ->
         Return([h EXCEPT !.rules = file.v, !.rulesReads = @ + 1], file.v)
    [] OTHER ->
         Return([h EXCEPT !.rules = get_default_rules, !.rulesReads = @ + 1],
                get_default_rules)

\* RuleForWriterNode.process: open + json.load
RuleForWriterNode_process(h, file) ==
  CASE file.t = "json" ->
         Return([h EXCEPT !.rules = file.v, !.rulesReads = @ + 1], file.v)
    [] file.t = "absent" ->
         Return([h EXCEPT !.rules = get_default_rules, !.rulesReads = @ + 1],
                get_default_rules)
    [] OTHER -> Return([h EXCEPT !.rulesReads = @ + 1], None)

\* RuleForWriterNode.get_rules
RuleForWriterNode_get_rules(h, file) ==
  IF h.rules # None THEN Return(h, h.rules)
  ELSE RuleForWriterNode_process(h, file)

\* bool(value) for the JSON values a rules document can hold
truthy(v) ==
  CASE v.t = "None" -> FALSE
    [] v.t = "dict" -> DOMAIN v.d # {}
    [] v.t = "list" -> Len(v.l) > 0
    [] v.t = "str" -> Len(v.s) > 0
    [] v.t = "int" -> v.n # 0
    [] v.t = "bool" -> v.b
    [] OTHER -> TRUE

\* faulty variant of get_rule_by_pattern: rules["patterns"][pattern_key]
\* instead of .get(pattern_key, {}), so an unknown key raises
get_rule_by_pattern_keyerror(rules, pattern_key) ==
  IF ~truthy(rules) THEN [exc |-> FALSE, ret |-> EmptyDict]
  ELSE IF rules.t = "dict" /\ "patterns" \in DOMAIN rules.d
       THEN IF rules.d["patterns"].t = "dict"
               /\ pattern_key \in DOMAIN rules.d["patterns"].d
            THEN [exc |-> FALSE, ret |-> rules.d["patterns"].d[pattern_key]]
            ELSE [exc |-> TRUE, ret |-> None]
       ELSE IF rules.t = "dict" THEN [exc |-> FALSE, ret |-> EmptyDict]
       ELSE [exc |-> TRUE, ret |-> None]

\* RuleForWriterNode.get_rule_by_pattern; [exc, ret]
get_rule_by_pattern(rules, pattern_key) ==
  IF ~truthy(rules) THEN [exc |-> FALSE, ret |-> EmptyDict]
  ELSE CASE rules.t = "dict" ->
              IF "patterns" \in DOMAIN rules.d
              THEN IF rules.d["patterns"].t = "dict"
                   THEN [exc |-> FALSE,
                         ret |-> dict_get(rules.d["patterns"], pattern_key, EmptyDict)]
                   ELSE [exc |-> TRUE, ret |-> None]
              ELSE [exc |-> FALSE, ret |-> EmptyDict]
         [] rules.t = "list" ->
              IF \E i \in 1..Len(rules.l) : rules.l[i] = PyStr(S_patterns)
              THEN [exc |-> TRUE, ret |-> None]
              ELSE [exc |-> FALSE, ret |-> EmptyDict]
         [] rules.t = "str" ->
              IF Contains(rules.s, S_patterns)
              THEN [exc |-> TRUE, ret |-> None]
              ELSE [exc |-> FALSE, ret |-> EmptyDict]
         [] OTHER -> [exc |-> TRUE, ret |-> None]

\* ----------------------------------------------------------- JsonWriterNode
\* faulty variant of analyze_data_pattern: "section" is tested before
\* "text" / "name"
analyze_data_pattern_section_first(data) ==
  IF \E i \in 1..Len(data.columns) : data.columns[i].t # "str"
  THEN [exc |-> TRUE, ret |-> "raise"]
  ELSE LET column_str ==
             join_space([i \in 1..Len(data.columns) |-> lower(data.columns[i].s)])
       IN  [exc |-> FALSE,
            ret |-> IF Contains(column_str, S_section)
                    THEN "section_pattern"
                    ELSE "text_pattern"]

\* JsonWriterNode.analyze_data_pattern; [exc, ret]: col.lower() raises for a
\* column name that is not a str
analyze_data_pattern(data) ==
  IF \E i \in 1..Len(data.columns) : data.columns[i].t # "str"
  THEN [exc |-> TRUE, ret |-> "raise"]
  ELSE LET column_str ==
             join_space([i \in 1..Len(data.columns) |-> lower(data.columns[i].s)])
       IN  [exc |-> FALSE,
            ret |-> IF Contains(column_str, S_text) \/ Contains(column_str, S_name)
                    THEN "text_pattern"
                    ELSE IF Contains(column_str, S_section)
                         THEN "section_pattern"
                         ELSE "text_pattern"]

\* JsonWriterNode.determine_data_type
determine_data_type(value) ==
  IF isna(value) THEN S_TEXT
  ELSE IF value.t = "str" THEN S_TEXT
  ELSE IF isinstance_int_float(value) THEN S_NUMBER
  ELSE IF value.t = "bool" THEN S_BOOLEAN
  ELSE S_TEXT

\* the row_item dict built in process_sections for one non-null cell
row_item(col_name, cell_value, label_prefix, code_suffix) ==
  PyDict([label |-> PyStr(str(label_prefix) \o upper(col_name.s)),
          kind |-> PyStr(determine_data_type(cell_value)),
          code |-> PyStr(str(col_name) \o str(code_suffix)),
          html_overrides |-> PyDict(
            [value |-> PyStr(S_GENAI_REVENGG_
                             \o replace_space(upper(str(cell_value)))
                             \o <<"]">>)])])

\* faulty variant of the inner loop: the pd.notna test is missing, so a
\* row_item is built for every cell
RECURSIVE section_rows_every_cell(_, _, _, _, _)
section_rows_every_cell(columns, row, k, label_prefix, code_suffix) ==
  IF k > Len(row) THEN <<>>
  ELSE <<row_item(columns[k], row[k], label_prefix, code_suffix)>>
       \o section_rows_every_cell(columns, row, k + 1, label_prefix, code_suffix)

\* the inner loop of process_sections: the row_items of the cells k..end
RECURSIVE section_rows(_, _, _, _, _)
section_rows(columns, row, k, label_prefix, code_suffix) ==
  IF k > Len(row) THEN <<>>
  ELSE IF notna(row[k])
       THEN <<row_item(columns[k], row[k], label_prefix, code_suffix)>>
            \o section_rows(columns, row, k + 1, label_prefix, code_suffix)
       ELSE section_rows(columns, row, k + 1, label_prefix, code_suffix)

\* faulty variant of process_sections: the title uses index, not index + 1
process_sections_zero_based(data, rules) ==
  IF rules.t # "dict" THEN [exc |-> TRUE, ret |-> None]
  ELSE LET section_prefix == dict_get(rules, "section_prefix", PyStr(S_SECTION))
           label_prefix == dict_get(rules, "label_prefix", PyStr(S_LABEL_))
           code_suffix == dict_get(rules, "code_suffix", PyStr(S__Code))
       IN  [exc |-> FALSE,
            ret |-> PyList([i \in 1..Len(data.rows) |->
              PyDict([title |-> PyStr(str(section_prefix) \o <<" ">>
                                      \o IntToStr(i - 1)),
                      rows |-> PyList(section_rows(data.columns, data.rows[i], 1,
                                                   label_prefix, code_suffix))])])]

\* JsonWriterNode.process_sections; [exc, ret]: rules.get raises when the
\* pattern config is not a dict, col_name.upper() when a column name of a
\* non-null cell is not a str
process_sections(data, rules) ==
  IF rules.t # "dict" THEN [exc |-> TRUE, ret |-> None]
  ELSE IF \E i \in 1..Len(data.rows) : \E k \in 1..Len(data.columns) :
            notna(data.rows[i][k]) /\ data.columns[k].t # "str"
  THEN [exc |-> TRUE, ret |-> None]
  ELSE LET section_prefix == dict_get(rules, "section_prefix", PyStr(S_SECTION))
           label_prefix == dict_get(rules, "label_prefix", PyStr(S_LABEL_))
           code_suffix == dict_get(rules, "code_suffix", PyStr(S__Code))
       IN  [exc |-> FALSE,
            ret |-> PyList([i \in 1..Len(data.rows) |->
              PyDict([title |-> PyStr(str(section_prefix) \o <<" ">>
                                      \o IntToStr((i - 1) + 1)),
                      rows |-> PyList(section_rows(data.columns, data.rows[i], 1,
                                                   label_prefix, code_suffix))])])]

\* faulty variant of JsonWriterNode.process: the `if rules is None` test is
\* missing, so the document is built from whatever get_rule_by_pattern gives
JsonWriterNode_process_no_rules_check(h, excel, rulesf) ==
  LET d == InputNode_get_data(h, excel) IN
  IF d.ret = None THEN Return(d.h, None)
  ELSE LET r == RuleForWriterNode_get_rules(d.h, rulesf) IN
  LET pattern == analyze_data_pattern(d.ret) IN
  IF pattern.exc THEN Raise(r.h)
  ELSE LET h2 == [r.h EXCEPT !.pattern = pattern.ret]
           pattern_rules == get_rule_by_pattern(h2.rules, pattern.ret) IN
  IF pattern_rules.exc THEN Raise(h2)
  ELSE IF pattern_rules.ret.t # "dict" THEN Raise(h2)
  ELSE LET sections == process_sections(d.ret, pattern_rules.ret) IN
  IF sections.exc THEN Raise(h2)
  ELSE LET doc == PyDict(
             [pi_code |-> dict_get(pattern_rules.ret, "pi_code", PyStr(S_DEFAULT_CODE)),
              sections |-> sections.ret])
       IN  Return([h2 EXCEPT !.output_json = doc], doc)

\* JsonWriterNode.process
JsonWriterNode_process(h, excel, rulesf) ==
  LET d == InputNode_get_data(h, excel) IN
  IF d.ret = None THEN Return(d.h, None)
  ELSE LET r == RuleForWriterNode_get_rules(d.h, rulesf) IN
  IF r.ret = None THEN Return(r.h, None)
  ELSE LET pattern == analyze_data_pattern(d.ret) IN
  IF pattern.exc THEN Raise(r.h)
  ELSE LET h2 == [r.h EXCEPT !.pattern = pattern.ret]
           pattern_rules == get_rule_by_pattern(h2.rules, pattern.ret) IN
  IF pattern_rules.exc THEN Raise(h2)
  ELSE IF pattern_rules.ret.t # "dict" THEN Raise(h2)
  ELSE LET sections == process_sections(d.ret, pattern_rules.ret) IN
  IF sections.exc THEN Raise(h2)
  ELSE LET doc == PyDict(
             [pi_code |-> dict_get(pattern_rules.ret, "pi_code", PyStr(S_DEFAULT_CODE)),
              sections |-> sections.ret])
       IN  Return([h2 EXCEPT !.output_json = doc], doc)

\* JsonWriterNode.get_output
JsonWriterNode_get_output(h, excel, rulesf) ==
  IF h.output_json # None THEN Return(h, h.output_json)
  ELSE JsonWriterNode_process(h, excel, rulesf)

\* --------------------------------------------------------------- OutputNode
\* a destination file that was truncated and not completely written
Partial == [t |-> "partial"]

\* faulty variant of OutputNode.process: the file is opened for writing
\* before the document is asked for, so a null document leaves it truncated
OutputNode_process_open_first(h, excel, rulesf, dest0, io) ==
  LET o == JsonWriterNode_get_output(h, excel, rulesf) IN
  IF io = "open_fail"
  THEN [h |-> o.h, ret |-> PyBool(FALSE), exc |-> FALSE, dest |-> dest0]
  ELSE IF o.exc \/ o.ret = None \/ io = "dump_fail"
  THEN [h |-> o.h, ret |-> PyBool(FALSE), exc |-> FALSE, dest |-> Partial]
  ELSE [h |-> o.h, ret |-> PyBool(TRUE), exc |-> FALSE, dest |-> o.ret]

\* OutputNode.process; io is what the file system does with this write:
\* "ok", "open_fail" (open raises, nothing touched) or "dump_fail" (the file
\* was truncated by open and json.dump raised before finishing).
\* [h, ret, exc, dest]
OutputNode_process(h, excel, rulesf, dest0, io) ==
  LET o == JsonWriterNode_get_output(h, excel, rulesf) IN
  IF o.exc THEN [h |-> o.h, ret |-> PyBool(FALSE), exc |-> FALSE, dest |-> dest0]
  ELSE IF o.ret = None
  THEN [h |-> o.h, ret |-> PyBool(FALSE), exc |-> FALSE, dest |-> dest0]
  ELSE CASE io = "open_fail" ->
              [h |-> o.h, ret |-> PyBool(FALSE), exc |-> FALSE, dest |-> dest0]
         [] io = "dump_fail" ->
              [h |-> o.h, ret |-> PyBool(FALSE), exc |-> FALSE, dest |-> Partial]
         [] OTHER ->
              [h |-> o.h, ret |-> PyBool(TRUE), exc |-> FALSE, dest |-> o.ret]

\* ExcelToJsonConverter.convert
convert(h, excel, rulesf, dest0, io) == OutputNode_process(h, excel, rulesf, dest0, io)

\* ExcelToJsonConverter.get_preview
get_preview(h, excel, rulesf) == JsonWriterNode_get_output(h, excel, rulesf)

\* ------------------------------------------------------------------- inputs
ColName == PyStr(<<"N","a","m","e">>)
ColSection == PyStr(<<"S","e","c","t","i","o","n">>)
ColId == PyStr(<<"I","d">>)
ColFlag == PyStr(<<"F","l","a","g">>)
ColScore == PyStr(<<"S","c","o","r","e">>)
ColWhen == PyStr(<<"W","h","e","n">>)
ColSeven == PyInt(7)

\* the header rows of the spreadsheets considered
ColumnSets ==
  { <<ColName>>, <<ColName, ColSection>>, <<ColSection, ColId>>,
    <<ColId, ColFlag>>, <<ColScore, ColWhen>>, <<ColSeven>> }

\* the values a column of the spreadsheet holds
CellDomain(col) ==
  CASE col = ColName -> {NaN, PyStr(<<"j","o","h","n"," ","d","o","e">>)}
    [] col = ColSection -> {NaN, PyStr(<<"A">>)}
    [] col = ColId -> {PyInt(42), PyInt(7)}
    [] col = ColFlag -> {PyBool(TRUE), PyBool(FALSE)}
    [] col = ColScore -> {NaN, PyFloat(1, 5)}
    [] col = ColWhen -> {None, PyDatetime(1)}
    [] OTHER -> {NaN, PyStr(<<"x">>)}

AllCells == UNION {CellDomain(c) : c \in {ColName, ColSection, ColId, ColFlag,
                                          ColScore, ColWhen, ColSeven}}

RowsOf(cols) ==
  {r \in [1..Len(cols) -> AllCells] : \A k \in 1..Len(cols) : r[k] \in CellDomain(cols[k])}

DataFrames ==
  UNION {{[t |-> "df", columns |-> cols, rows |-> rs] :
            rs \in UNION {[1..n -> RowsOf(cols)] : n \in 0..MaxRows}} :
         cols \in ColumnSets}

ExcelFiles == DataFrames \cup {[t |-> "unreadable"]}

CustomText ==
  PyDict([pi_code |-> PyStr(<<"P","I">>), section_prefix |-> PyStr(<<"S","E","C">>),
          label_prefix |-> PyStr(<<"L","_">>), code_suffix |-> PyStr(<<"_","C">>)])

CustomSection == PyDict([pi_code |-> PyStr(<<"S","P">>), code_suffix |-> PyInt(3)])

\* the JSON documents a rules file may hold
RulesDocuments ==
  { PyDict([patterns |-> PyDict([text_pattern |-> CustomText,
                                 section_pattern |-> CustomSection])]),
    PyDict([patterns |-> PyDict([text_pattern |-> CustomText])]),
    PyDict([patterns |-> PyDict([text_pattern |-> PyStr(<<"x">>)])]),
    PyDict([patterns |-> PyList(<<>>)]),
    PyDict([other |-> PyInt(1)]),
    EmptyDict,
    PyList(<<PyStr(S_patterns)>>),
    PyInt(5),
    None }

RulesFiles ==
  {[t |-> "absent"], [t |-> "malformed"]}
    \cup {[t |-> "json", v |-> v] : v \in RulesDocuments}

Absent == [t |-> "absent"]
Old == [t |-> "old"]

IoOutcomes == {"ok", "open_fail", "dump_fail"}

\* -------------------------------------------------------------------- state
VARIABLES
  excelFile,    \* the spreadsheet at excel_file_path
  rulesFile,    \* the file at rules_file_path
  dest,         \* the file at output_file_path
  data,         \* InputNode.data
  columns,      \* InputNode.columns
  rows,         \* InputNode.rows
  rules,        \* RuleForWriterNode.rules
  output_json,  \* JsonWriterNode.output_json
  pattern,      \* the pattern key last identified by JsonWriterNode.process
  excelReads,   \* number of pd.read_excel calls made
  rulesReads,   \* number of open() calls on the rules file
  calls,        \* number of calls made on the converter
  op,           \* the last call
  ret,          \* what the last call returned
  exc           \* whether the last call raised to its caller

vars == <<excelFile, rulesFile, dest, data, columns, rows, rules, output_json,
          pattern, excelReads, rulesReads, calls, op, ret, exc>>

Heap ==
  [data |-> data, columns |-> columns, rows |-> rows, rules |-> rules,
   output_json |-> output_json, pattern |-> pattern,
   excelReads |-> excelReads, rulesReads |-> rulesReads]

\* the state after ExcelToJsonConverter.__init__
Init ==
  /\ excelFile \in ExcelFiles
  /\ rulesFile \in RulesFiles
  /\ dest \in {Absent, Old}
  /\ data = None
  /\ columns = <<>>
  /\ rows = <<>>
  /\ rules = None
  /\ output_json = None
  /\ pattern = "none"
  /\ excelReads = 0
  /\ rulesReads = 0
  /\ calls = 0
  /\ op = "init"
  /\ ret = None
  /\ exc = FALSE

Apply(r, name) ==
  /\ data' = r.h.data
  /\ columns' = r.h.columns
  /\ rows' = r.h.rows
  /\ rules' = r.h.rules
  /\ output_json' = r.h.output_json
  /\ pattern' = r.h.pattern
  /\ excelReads' = r.h.excelReads
  /\ rulesReads' = r.h.rulesReads
  /\ ret' = r.ret
  /\ exc' = r.exc
  /\ op' = name
  /\ calls' = calls + 1
  /\ UNCHANGED <<excelFile, rulesFile>>

\* input_node.get_data()
GetData ==
  /\ calls < MaxCalls
  /\ Apply(InputNode_get_data(Heap, excelFile), "get_data")
  /\ UNCHANGED dest

\* rule_node.get_rules()
GetRules ==
  /\ calls < MaxCalls
  /\ Apply(RuleForWriterNode_get_rules(Heap, rulesFile), "get_rules")
  /\ UNCHANGED dest

\* converter.get_preview()
GetPreview ==
  /\ calls < MaxCalls
  /\ Apply(get_preview(Heap, excelFile, rulesFile), "get_preview")
  /\ UNCHANGED dest

\* converter.convert()
Convert ==
  /\ calls < MaxCalls
  /\ \E io \in IoOutcomes :
       LET r == convert(Heap, excelFile, rulesFile, dest, io) IN
         /\ Apply(r, "convert")
         /\ dest' = r.dest

Next == GetData \/ GetRules \/ GetPreview \/ Convert

Spec == Init /\ [][Next]_vars

\* ------------------------------------------------------------------- claims

\* C1: over every sequence of calls, load failures included, the spreadsheet
\* is read at most once and the rules file is read at most once.
C1_ReadAtMostOnce == excelReads <= 1 /\ rulesReads <= 1

\* C2: every RowItem emitted for a cell carries the kind of that cell's
\* value: BOOLEAN for a boolean, NUMBER for an int or a float, TEXT for a
\* string (and for any other non-null value).
C2_BooleanIsBoolean ==
  output_json # None =>
    \A i \in 1..Len(data.rows) : \A k \in 1..Len(data.columns) :
      LET row == data.rows[i]
          items == output_json.d.sections.l[i].d.rows.l
          pos == Cardinality({j \in 1..k : notna(row[j])})
      IN  notna(row[k]) =>
            items[pos].d.kind.s =
              CASE row[k].t = "bool" -> S_BOOLEAN
                [] row[k].t \in {"int", "float"} -> S_NUMBER
                [] OTHER -> S_TEXT

\* C3: the document holds exactly one Section per table row, in row order,
\* the i-th titled "{section_prefix} {i}"; no rows gives no sections and a
\* row of nulls gives a Section with empty rows.
C3_OneSectionPerRow ==
  output_json # None =>
    LET sections == output_json.d.sections.l
        config == get_rule_by_pattern(rules, pattern).ret
        prefix == IF "section_prefix" \in DOMAIN config.d
                  THEN config.d["section_prefix"] ELSE PyStr(S_SECTION)
    IN  /\ Len(sections) = Len(excelFile.rows)
        /\ \A i \in 1..Len(excelFile.rows) :
             /\ sections[i].d.title.s = str(prefix) \o <<" ">> \o IntToStr(i)
             /\ (\A k \in 1..Len(excelFile.columns) : isna(excelFile.rows[i][k]))
                  => sections[i].d.rows.l = <<>>

C3_Witness ==
  /\ output_json # None
  /\ Len(excelFile.rows) = 2
  /\ \A k \in 1..Len(excelFile.columns) : isna(excelFile.rows[2][k])
  /\ \E k \in 1..Len(excelFile.columns) : notna(excelFile.rows[1][k])
  /\ Len(output_json.d.sections.l) = 2

\* C4: a Section's rows hold one RowItem per non-null cell of its row, in
\* column order, and none for a null cell.
C4_RowItemPerNonNullCell ==
  output_json # None =>
    \A i \in 1..Len(excelFile.rows) :
      LET row == excelFile.rows[i]
          items == output_json.d.sections.l[i].d.rows.l
          config == get_rule_by_pattern(rules, pattern).ret
          suffix == IF "code_suffix" \in DOMAIN config.d
                    THEN config.d["code_suffix"] ELSE PyStr(S__Code)
      IN  /\ Len(items) = Cardinality({k \in 1..Len(row) : notna(row[k])})
          /\ \A k \in 1..Len(row) :
               notna(row[k]) =>
                 items[Cardinality({j \in 1..k : notna(row[j])})].d.code.s
                   = excelFile.columns[k].s \o str(suffix)

C4_Witness ==
  /\ output_json # None
  /\ \E i \in 1..Len(excelFile.rows) :
       /\ Len(excelFile.rows[i]) = 2
       /\ isna(excelFile.rows[i][1])
       /\ notna(excelFile.rows[i][2])
       /\ Len(output_json.d.sections.l[i].d.rows.l) = 1

\* C5: the pattern key selected is text_pattern when some lowercased column
\* name contains "text" or "name", section_pattern when none does and one
\* contains "section", text_pattern otherwise; a table whose column names
\* are strings always gets a key, and no other key is ever selected.
C5_PatternSelection ==
  /\ pattern \in {"none", "text_pattern", "section_pattern"}
  /\ pattern # "none" =>
       LET has(sub) == \E k \in 1..Len(excelFile.columns) :
                         Contains(lower(excelFile.columns[k].s), sub)
       IN  pattern = IF has(S_text) \/ has(S_name) THEN "text_pattern"
                     ELSE IF has(S_section) THEN "section_pattern"
                     ELSE "text_pattern"
  /\ ( /\ op \in {"get_preview", "convert"}
       /\ data # None
       /\ rules # None
       /\ \A k \in 1..Len(data.columns) : data.columns[k].t = "str" )
       => pattern # "none"

C5_Witness ==
  /\ pattern = "text_pattern"
  /\ data # None
  /\ data.columns = <<ColName, ColSection>>

\* C6: with the table or the rule set unavailable no document is returned
\* and output_json stays null; output_json is always null or a complete
\* document with pi_code and one section per row.
C6_NoPartialDocument ==
  /\ (data = None \/ rules = None) =>
       /\ output_json = None
       /\ op = "get_preview" => (ret = None /\ ~exc)
       /\ op = "convert" => ret = PyBool(FALSE)
  /\ output_json # None =>
       /\ output_json.t = "dict"
       /\ DOMAIN output_json.d = {"pi_code", "sections"}
       /\ Len(output_json.d.sections.l) = Len(excelFile.rows)

C6_Witness ==
  /\ op = "get_preview"
  /\ data # None
  /\ rulesFile.t = "malformed"
  /\ rules = None
  /\ ret = None
  /\ output_json = None

\* C7: an absent rules file yields the built-in RuleSet, whose only pattern
\* key is text_pattern with pi_code "MES_REVENGG_TESTRUN", and a loaded table
\* with string column names still gets its document; a malformed rules file
\* yields null from get_rules, no default, and no document.
C7_AbsentVersusMalformed ==
  /\ (rulesFile.t = "absent" /\ rulesReads > 0) =>
       /\ rules.t = "dict"
       /\ DOMAIN rules.d = {"patterns"}
       /\ DOMAIN rules.d["patterns"].d = {"text_pattern"}
       /\ rules.d["patterns"].d["text_pattern"].d["pi_code"] = PyStr(S_MES_REVENGG_TESTRUN)
       /\ op = "get_rules" => ret = rules
       /\ ( /\ op = "get_preview"
            /\ data # None
            /\ \A k \in 1..Len(data.columns) : data.columns[k].t = "str" )
            => (output_json # None /\ ret = output_json)
  /\ rulesFile.t = "malformed" =>
       /\ rules = None
       /\ output_json = None
       /\ op \in {"get_rules", "get_preview"} => ret = None
       /\ op = "convert" => ret = PyBool(FALSE)

C7_Witness ==
  /\ rulesFile.t = "absent"
  /\ op = "get_preview"
  /\ output_json # None
  /\ output_json.d.pi_code = PyStr(S_MES_REVENGG_TESTRUN)
  /\ Len(output_json.d.sections.l) > 0

\* C8: no call of convert() or get_preview() ever ends by raising to its
\* caller, whatever the spreadsheet, the rules document and the destination.
C8_NoUncaughtException == op \in {"convert", "get_preview"} => ~exc

\* C9: a convert() that gets no document returns false and leaves the
\* destination file as it was, and convert() returns true only with the
\* complete document written to the destination.
C9_NullDocumentLeavesDestination ==
  [][ op' = "convert" =>
        /\ ~exc'
        /\ output_json' = None => (ret' = PyBool(FALSE) /\ dest' = dest)
        /\ ret' = PyBool(TRUE) =>
             /\ output_json' # None
             /\ dest' = output_json'
             /\ Len(dest'.d.sections.l) = Len(excelFile.rows) ]_vars

C9_Witness ==
  /\ op = "convert"
  /\ ret = PyBool(FALSE)
  /\ output_json = None
  /\ data # None
  /\ dest = Old

\* C10: when the selected pattern key is not among the patterns of the
\* loaded rules, the lookup gives an empty PatternConfig and the document is
\* still produced, from the defaults: pi_code "DEFAULT_CODE", titles
\* "SECTION i", labels "LABEL_<COLUMN>", codes "<column>_Code".
C10_UnknownKeyDefaults ==
  ( /\ pattern # "none"
    /\ rules.t = "dict"
    /\ "patterns" \in DOMAIN rules.d
    /\ rules.d["patterns"].t = "dict"
    /\ pattern \notin DOMAIN rules.d["patterns"].d ) =>
    /\ output_json # None
    /\ output_json.d.pi_code = PyStr(S_DEFAULT_CODE)
    /\ \A i \in 1..Len(excelFile.rows) :
         LET section == output_json.d.sections.l[i]
             row == excelFile.rows[i]
         IN  /\ section.d.title.s = S_SECTION \o <<" ">> \o IntToStr(i)
             /\ \A k \in 1..Len(row) :
                  notna(row[k]) =>
                    LET item == section.d.rows.l[Cardinality({j \in 1..k : notna(row[j])})]
                    IN  /\ item.d.label.s = S_LABEL_ \o upper(excelFile.columns[k].s)
                        /\ item.d.code.s = excelFile.columns[k].s \o S__Code

C10_Witness ==
  /\ pattern = "section_pattern"
  /\ rulesFile.t = "absent"
  /\ output_json # None
  /\ output_json.d.pi_code = PyStr(S_DEFAULT_CODE)
  /\ \E i \in 1..Len(excelFile.rows) : Len(output_json.d.sections.l[i].d.rows.l) = 2
====
